---- MODULE Spec2Model ----
(***************************************************************************)
(* Model of the svg display module (src/src/svg.display.ts) and the        *)
(* numeric helpers it uses (src/src/utils.ts): the view state (scale,      *)
(* viewOffset, dragOffset, dragging, contentOffset), the initialization    *)
(* guards and the mouse / wheel handlers installed by initialize().        *)
(*                                                                         *)
(* Numbers.  A JavaScript number is modelled as an exact rational          *)
(* [n |-> numerator, d |-> denominator] in lowest terms with d > 0, plus   *)
(* the three IEEE specials, which have d = 0: NaN (n = 0), +Infinity       *)
(* (n = 1) and -Infinity (n = -1).  The arithmetic operators below follow  *)
(* the IEEE rules for the specials (x/0, 0/0, NaN propagation, comparisons *)
(* with NaN are false); rounding of finite results is not modelled.        *)
(***************************************************************************)
EXTENDS Integers, Sequences, FiniteSets, TLC

VARIABLES
    svgDocument,    \* "undefined" or "Doc"      (svg.display.ts:187)
    svgRoot,        \* "undefined" or "G"        (svg.display.ts:188)
    viewOffset,     \* vector                    (svg.display.ts:189)
    contentOffset,  \* vector                    (svg.display.ts:190)
    scale,          \* number                    (svg.display.ts:191)
    dragging,       \* boolean                   (svg.display.ts:192)
    dragOffset,     \* vector                    (svg.display.ts:193)
    handlers,       \* TRUE once onmousedown/onmouseup/onmousemove/onwheel are installed
    rootTransform,  \* the root group's transform attribute: <<>> or <<offset, scale>>
    blockerClass,   \* className of the input-blocker element
    content,        \* bounding-box size of the root group's content (svgRoot.bbox())
    hasElement,     \* TRUE when a root display element has been created
    activeElement,  \* tagName of document.activeElement: "BODY" or "INPUT"
    lastOp,         \* the last call or event and the error it threw ("" for none)
    nSteps,         \* number of calls and events so far
    \* History of the current drag, kept to state the drag properties:
    downPos,        \* pointer position of the last handled mousedown
    downView,       \* viewOffset when that mousedown was handled
    downScale,      \* scale when that mousedown was handled
    dragClean,      \* no wheel zoom, focusContent or mouseup since that mousedown
    prevMouse,      \* pointer position of the previous mouse event of the drag
    upSince,        \* a mouseup was handled and no mousedown has been handled since
    focusCancelled  \* a mousemove saw INPUT focus and no mousedown has been handled since

vars == <<svgDocument, svgRoot, viewOffset, contentOffset, scale, dragging, dragOffset,
          handlers, rootTransform, blockerClass, content, hasElement, activeElement,
          lastOp, nSteps, downPos, downView, downScale, dragClean, prevMouse,
          upSince, focusCancelled>>

viewVars == <<viewOffset, scale, dragOffset, dragging>>

histVars == <<downPos, downView, downScale, dragClean, prevMouse, upSince, focusCancelled>>

(***************************************************************************)
(* Bounds of the model.                                                    *)
(***************************************************************************)
MaxSteps == 6

(***************************************************************************)
(* Numbers.                                                                *)
(***************************************************************************)
Abs(i) == IF i < 0 THEN -i ELSE i

RECURSIVE GCD(_, _)
GCD(a, b) == IF b = 0 THEN a ELSE GCD(b, a % b)

\* The rational n/d (d # 0) in lowest terms with a positive denominator.
Norm(n, d) ==
    LET g == GCD(Abs(n), Abs(d))
        s == IF d < 0 THEN -1 ELSE 1
    IN  [n |-> (s * n) \div g, d |-> (s * d) \div g]

Num(i) == [n |-> i, d |-> 1]

NaN == [n |-> 0, d |-> 0]

PosInf == [n |-> 1, d |-> 0]

NegInf == [n |-> -1, d |-> 0]

IsNaN(a) == a.d = 0 /\ a.n = 0

IsFinite(a) == a.d # 0

Neg(a) == [n |-> -a.n, d |-> a.d]

\* a + b
Add(a, b) ==
    IF IsFinite(a) /\ IsFinite(b) THEN Norm(a.n * b.d + b.n * a.d, a.d * b.d)
    ELSE IF IsNaN(a) \/ IsNaN(b) THEN NaN
    ELSE IF IsFinite(a) THEN b
    ELSE IF IsFinite(b) THEN a
    ELSE IF a = b THEN a ELSE NaN

\* a - b
Sub(a, b) == Add(a, Neg(b))

\* a * b
Mul(a, b) ==
    IF IsFinite(a) /\ IsFinite(b) THEN Norm(a.n * b.n, a.d * b.d)
    ELSE IF IsNaN(a) \/ IsNaN(b) THEN NaN
    ELSE IF a.n = 0 \/ b.n = 0 THEN NaN
    ELSE IF (a.n > 0) = (b.n > 0) THEN PosInf ELSE NegInf

\* a / b
Div(a, b) ==
    IF IsFinite(a) /\ IsFinite(b)
    THEN IF b.n # 0 THEN Norm(a.n * b.d, a.d * b.n)
         ELSE IF a.n = 0 THEN NaN
         ELSE IF a.n > 0 THEN PosInf ELSE NegInf
    ELSE IF IsNaN(a) \/ IsNaN(b) THEN NaN
    ELSE IF ~IsFinite(a) /\ ~IsFinite(b) THEN NaN
    ELSE IF IsFinite(a) THEN Num(0)
    ELSE IF (a.n > 0) = (b.n >= 0) THEN PosInf ELSE NegInf

\* a < b (false when either is NaN)
Lt(a, b) ==
    /\ ~IsNaN(a)
    /\ ~IsNaN(b)
    /\ IF IsFinite(a) \/ IsFinite(b) THEN a.n * b.d < b.n * a.d ELSE a.n < b.n

\* a > b
Gt(a, b) == Lt(b, a)

\* Math.min(a, b)
MathMin(a, b) ==
    IF IsNaN(a) \/ IsNaN(b) THEN NaN ELSE IF Lt(b, a) THEN b ELSE a

\* Utils.clamp
clamp(num, min, max) ==
    IF Lt(num, min) THEN min ELSE (IF Gt(num, max) THEN max ELSE num)

\* Utils.half
half(num) == Mul(num, [n |-> 1, d |-> 2])

(***************************************************************************)
(* Vectors (the Vec module).                                               *)
(***************************************************************************)
Vec(a, b) == [x |-> a, y |-> b]

Pt(i, j) == Vec(Num(i), Num(j))

zeroVector == Pt(0, 0)

VecAdd(a, b) == Vec(Add(a.x, b.x), Add(a.y, b.y))

VecSubtract(a, b) == Vec(Sub(a.x, b.x), Sub(a.y, b.y))

VecMultiply(v, k) == Vec(Mul(v.x, k), Mul(v.y, k))

VecHalf(v) == Vec(half(v.x), half(v.y))

VecInvert(v) == Vec(Neg(v.x), Neg(v.y))

(***************************************************************************)
(* Program constants.                                                      *)
(***************************************************************************)
minScale == Norm(1, 20)

maxScale == Num(3)

scrollScaleSpeed == Norm(1, 1000)

displayMargin == Pt(75, 75)

halfDisplayMargin == VecHalf(displayMargin)

(***************************************************************************)
(* Inputs: what the environment can hand to the handlers.                  *)
(***************************************************************************)
\* Pointer positions of mouse and wheel events.
Pointers == {Pt(0, 0), Pt(40, 20)}

\* deltaY of wheel events: zoom in past maxScale, zoom out by 0.5, zoom out past minScale.
WheelDeltas == {-4000, 500, 4000}

\* Sizes of the display (svgDocument.rbox()): roomy, as wide as the margin, smaller
\* than the margin.
DisplaySizes == {Pt(875, 475), Pt(75, 300), Pt(50, 50)}

\* Sizes of rectangles added to the content: ordinary, zero width.
RectSizes == {Pt(400, 100), Pt(0, 100)}

\* Offsets handed to setContentOffset.
ContentOffsets == {Pt(0, 0), Pt(-30, 10)}

NoOp == [op |-> "none", threw |-> ""]

Op(name, err) == [op |-> name, threw |-> err]

Initialized == svgDocument # "undefined" /\ svgRoot # "undefined"

NotInitializedError == "Display hasn't been initialized"

Init ==
    /\ svgDocument = "undefined"
    /\ svgRoot = "undefined"
    /\ viewOffset = zeroVector
    /\ contentOffset = zeroVector
    /\ scale = Num(1)
    /\ dragging = FALSE
    /\ dragOffset = zeroVector
    /\ handlers = FALSE
    /\ rootTransform = <<>>
    /\ blockerClass = ""
    /\ content = zeroVector
    /\ hasElement = FALSE
    /\ activeElement = "BODY"
    /\ lastOp = NoOp
    /\ nSteps = 0
    /\ downPos = zeroVector
    /\ downView = zeroVector
    /\ downScale = Num(1)
    /\ dragClean = FALSE
    /\ prevMouse = zeroVector
    /\ upSince = FALSE
    /\ focusCancelled = FALSE

(***************************************************************************)
(* Helpers of the module.                                                  *)
(***************************************************************************)
\* clampScale
clampScale(newScale) == clamp(newScale, minScale, maxScale)

\* updateRootTransform, for the offset and scale given
TransformOf(offset, s) == <<offset, s>>

\* FitRatio with Math.max in the place of Math.min
FitRatioMax(display, size) ==
    LET displaySize == VecSubtract(display, displayMargin)
    IN  IF IsNaN(Div(displaySize.x, size.x)) \/ IsNaN(Div(displaySize.y, size.y)) THEN NaN
        ELSE IF Lt(Div(displaySize.x, size.x), Div(displaySize.y, size.y))
        THEN Div(displaySize.y, size.y) ELSE Div(displaySize.x, size.x)

\* The scale focusContent asks setScale for: Math.min of the two fit ratios of the
\* display size less the margin and the content size.
FitRatio(display, size) ==
    LET displaySize == VecSubtract(display, displayMargin)
    IN  MathMin(Div(displaySize.x, size.x), Div(displaySize.y, size.y))

\* The offset focusContent hands to setOffset once the scale s is set.
CenterOffset(display, size, offset, s) ==
    LET displaySize == VecSubtract(display, displayMargin)
        scaledContentSize == VecMultiply(size, s)
        scaledContentOffset == VecMultiply(offset, s)
        centeringOffset == VecAdd(VecHalf(VecSubtract(displaySize, scaledContentSize)),
                                  VecInvert(scaledContentOffset))
    IN  VecAdd(halfDisplayMargin, centeringOffset)

\* newScale of the wheel handler
WheelScale(s, deltaY) ==
    LET scrollDelta == Mul(Num(-deltaY), scrollScaleSpeed)
    IN  clampScale(Add(s, scrollDelta))

\* WheelOffset with the zoom factor taken relative to the new scale
WheelOffsetNewScale(offset, s, pointerPos, newScale) ==
    LET zoomFactor == Div(Sub(newScale, s), newScale)
        offsetToPointer == VecSubtract(pointerPos, offset)
        offsetDelta == VecMultiply(offsetToPointer, Neg(zoomFactor))
    IN  VecAdd(offset, offsetDelta)

\* The view offset the wheel handler assigns
WheelOffset(offset, s, pointerPos, newScale) ==
    LET zoomFactor == Div(Sub(newScale, s), s)
        offsetToPointer == VecSubtract(pointerPos, offset)
        offsetDelta == VecMultiply(offsetToPointer, Neg(zoomFactor))
    IN  VecAdd(offset, offsetDelta)

\* Bounding box of the content once a rectangle of the given size is added at the origin
BBoxWith(box, size) ==
    Vec(IF Lt(box.x, size.x) THEN size.x ELSE box.x,
        IF Lt(box.y, size.y) THEN size.y ELSE box.y)

(***************************************************************************)
(* initialize()                                                            *)
(***************************************************************************)
\* initialize() installing the listeners before it checks SVG.supported
initializeListenersFirst(anchorPresent, svgSupported) ==
    /\ nSteps < MaxSteps
    /\ nSteps' = nSteps + 1
    /\ IF svgDocument # "undefined" \/ svgRoot # "undefined"
       THEN /\ lastOp' = Op("initialize", "Already initialized")
            /\ UNCHANGED <<svgDocument, svgRoot, handlers>>
       ELSE IF ~anchorPresent
       THEN /\ lastOp' = Op("initialize", "No dom element found with id: svg-display")
            /\ UNCHANGED <<svgDocument, svgRoot, handlers>>
       ELSE IF ~svgSupported
       THEN /\ lastOp' = Op("initialize", "Svg not supported")
            /\ handlers' = TRUE
            /\ UNCHANGED <<svgDocument, svgRoot>>
       ELSE /\ svgDocument' = "Doc"
            /\ svgRoot' = "G"
            /\ handlers' = TRUE
            /\ lastOp' = Op("initialize", "")
    /\ UNCHANGED <<viewVars, contentOffset, rootTransform, blockerClass, content,
                   hasElement, activeElement, histVars>>

initialize(anchorPresent, svgSupported) ==
    /\ nSteps < MaxSteps
    /\ nSteps' = nSteps + 1
    /\ IF svgDocument # "undefined" \/ svgRoot # "undefined"
       THEN /\ lastOp' = Op("initialize", "Already initialized")
            /\ UNCHANGED <<svgDocument, svgRoot, handlers>>
       ELSE IF ~anchorPresent
       THEN /\ lastOp' = Op("initialize", "No dom element found with id: svg-display")
            /\ UNCHANGED <<svgDocument, svgRoot, handlers>>
       ELSE IF ~svgSupported
       THEN /\ lastOp' = Op("initialize", "Svg not supported")
            /\ UNCHANGED <<svgDocument, svgRoot, handlers>>
       ELSE /\ svgDocument' = "Doc"
            /\ svgRoot' = "G"
            /\ handlers' = TRUE
            /\ lastOp' = Op("initialize", "")
    /\ UNCHANGED <<viewVars, contentOffset, rootTransform, blockerClass, content,
                   hasElement, activeElement, histVars>>

(***************************************************************************)
(* The handlers initialize() installs.  An event dispatched while no       *)
(* handler is installed runs no code.                                      *)
(***************************************************************************)
\* onmousedown adding the pointer position to the view offset
onmousedownAdd(p) ==
    /\ nSteps < MaxSteps
    /\ nSteps' = nSteps + 1
    /\ lastOp' = Op("mousedown", "")
    /\ IF handlers /\ activeElement # "INPUT"
       THEN /\ dragOffset' = VecAdd(viewOffset, p)
            /\ dragging' = TRUE
            /\ downPos' = p
            /\ downView' = viewOffset
            /\ downScale' = scale
            /\ dragClean' = TRUE
            /\ prevMouse' = p
            /\ upSince' = FALSE
            /\ focusCancelled' = FALSE
       ELSE UNCHANGED <<dragOffset, dragging, histVars>>
    /\ UNCHANGED <<svgDocument, svgRoot, viewOffset, contentOffset, scale, handlers,
                   rootTransform, blockerClass, content, hasElement, activeElement>>

onmousedown(p) ==
    /\ nSteps < MaxSteps
    /\ nSteps' = nSteps + 1
    /\ lastOp' = Op("mousedown", "")
    /\ IF handlers /\ activeElement # "INPUT"
       THEN /\ dragOffset' = VecSubtract(viewOffset, p)
            /\ dragging' = TRUE
            /\ downPos' = p
            /\ downView' = viewOffset
            /\ downScale' = scale
            /\ dragClean' = TRUE
            /\ prevMouse' = p
            /\ upSince' = FALSE
            /\ focusCancelled' = FALSE
       ELSE UNCHANGED <<dragOffset, dragging, histVars>>
    /\ UNCHANGED <<svgDocument, svgRoot, viewOffset, contentOffset, scale, handlers,
                   rootTransform, blockerClass, content, hasElement, activeElement>>

onmouseup ==
    /\ nSteps < MaxSteps
    /\ nSteps' = nSteps + 1
    /\ lastOp' = Op("mouseup", "")
    /\ IF handlers
       THEN /\ dragging' = FALSE
            /\ blockerClass' = "order-back"
            /\ dragClean' = FALSE
            /\ upSince' = TRUE
       ELSE UNCHANGED <<dragging, blockerClass, dragClean, upSince>>
    /\ UNCHANGED <<svgDocument, svgRoot, viewOffset, contentOffset, scale, dragOffset,
                   handlers, rootTransform, content, hasElement, activeElement,
                   downPos, downView, downScale, prevMouse, focusCancelled>>

\* onmousemove returning on INPUT focus without ending the drag
onmousemoveKeepDrag(p) ==
    /\ nSteps < MaxSteps
    /\ nSteps' = nSteps + 1
    /\ lastOp' = Op("mousemove", "")
    /\ IF handlers /\ activeElement = "INPUT"
       THEN /\ dragClean' = FALSE
            /\ focusCancelled' = TRUE
            /\ UNCHANGED <<viewOffset, rootTransform, blockerClass, prevMouse, dragging>>
       ELSE IF handlers /\ dragging
       THEN /\ blockerClass' = "order-front"
            /\ viewOffset' = VecAdd(dragOffset, p)
            /\ rootTransform' = TransformOf(viewOffset', scale)
            /\ prevMouse' = p
            /\ UNCHANGED <<dragging, dragClean, focusCancelled>>
       ELSE UNCHANGED <<viewOffset, rootTransform, blockerClass, prevMouse, dragging,
                        dragClean, focusCancelled>>
    /\ UNCHANGED <<svgDocument, svgRoot, contentOffset, scale, dragOffset, handlers,
                   content, hasElement, activeElement, downPos, downView, downScale,
                   upSince>>

onmousemove(p) ==
    /\ nSteps < MaxSteps
    /\ nSteps' = nSteps + 1
    /\ lastOp' = Op("mousemove", "")
    /\ IF handlers /\ activeElement = "INPUT"
       THEN /\ dragging' = FALSE
            /\ dragClean' = FALSE
            /\ focusCancelled' = TRUE
            /\ UNCHANGED <<viewOffset, rootTransform, blockerClass, prevMouse>>
       ELSE IF handlers /\ dragging
       THEN /\ blockerClass' = "order-front"
            /\ viewOffset' = VecAdd(dragOffset, p)
            /\ rootTransform' = TransformOf(viewOffset', scale)
            /\ prevMouse' = p
            /\ UNCHANGED <<dragging, dragClean, focusCancelled>>
       ELSE UNCHANGED <<viewOffset, rootTransform, blockerClass, prevMouse, dragging,
                        dragClean, focusCancelled>>
    /\ UNCHANGED <<svgDocument, svgRoot, contentOffset, scale, dragOffset, handlers,
                   content, hasElement, activeElement, downPos, downView, downScale,
                   upSince>>

onwheel(pointerPos, deltaY) ==
    /\ nSteps < MaxSteps
    /\ nSteps' = nSteps + 1
    /\ lastOp' = Op("wheel", "")
    /\ IF handlers /\ activeElement # "INPUT"
       THEN LET newScale == WheelScale(scale, deltaY)
            IN  /\ viewOffset' = WheelOffset(viewOffset, scale, pointerPos, newScale)
                /\ scale' = newScale
                /\ rootTransform' = TransformOf(viewOffset', scale')
                /\ dragClean' = FALSE
       ELSE UNCHANGED <<viewOffset, scale, rootTransform, dragClean>>
    /\ UNCHANGED <<svgDocument, svgRoot, contentOffset, dragging, dragOffset, handlers,
                   blockerClass, content, hasElement, activeElement, downPos, downView,
                   downScale, prevMouse, upSince, focusCancelled>>

(***************************************************************************)
(* The exported calls.                                                     *)
(***************************************************************************)
createElement ==
    /\ nSteps < MaxSteps
    /\ nSteps' = nSteps + 1
    /\ IF Initialized
       THEN /\ hasElement' = TRUE
            /\ lastOp' = Op("createElement", "")
       ELSE /\ lastOp' = Op("createElement", NotInitializedError)
            /\ UNCHANGED hasElement
    /\ UNCHANGED <<svgDocument, svgRoot, viewVars, contentOffset, handlers, rootTransform,
                   blockerClass, content, activeElement, histVars>>

\* Element.addRect on an element of the display, at the element's origin
addRect(size) ==
    /\ nSteps < MaxSteps
    /\ nSteps' = nSteps + 1
    /\ hasElement
    /\ content' = BBoxWith(content, size)
    /\ lastOp' = Op("addRect", "")
    /\ UNCHANGED <<svgDocument, svgRoot, viewVars, contentOffset, handlers, rootTransform,
                   blockerClass, hasElement, activeElement, histVars>>

setContentOffset(offset) ==
    /\ nSteps < MaxSteps
    /\ nSteps' = nSteps + 1
    /\ contentOffset' = offset
    /\ lastOp' = Op("setContentOffset", "")
    /\ UNCHANGED <<svgDocument, svgRoot, viewVars, handlers, rootTransform, blockerClass,
                   content, hasElement, activeElement, histVars>>

\* focusContent without its assertInitialized() call
focusContentNoAssert(display) ==
    /\ nSteps < MaxSteps
    /\ nSteps' = nSteps + 1
    /\ scale' = clampScale(FitRatio(display, content))
    /\ viewOffset' = CenterOffset(display, content, contentOffset, scale')
    /\ rootTransform' = TransformOf(viewOffset', scale')
    /\ dragClean' = FALSE
    /\ lastOp' = Op("focusContent", "")
    /\ UNCHANGED <<svgDocument, svgRoot, contentOffset, dragging, dragOffset, handlers,
                   blockerClass, content, hasElement, activeElement, downPos,
                   downView, downScale, prevMouse, upSince, focusCancelled>>

focusContent(display) ==
    /\ nSteps < MaxSteps
    /\ nSteps' = nSteps + 1
    /\ IF Initialized
       THEN /\ scale' = clampScale(FitRatio(display, content))
            /\ viewOffset' = CenterOffset(display, content, contentOffset, scale')
            /\ rootTransform' = TransformOf(viewOffset', scale')
            /\ dragClean' = FALSE
            /\ lastOp' = Op("focusContent", "")
       ELSE /\ lastOp' = Op("focusContent", NotInitializedError)
            /\ UNCHANGED <<scale, viewOffset, rootTransform, dragClean>>
    /\ UNCHANGED <<svgDocument, svgRoot, contentOffset, dragging, dragOffset, handlers,
                   blockerClass, content, hasElement, activeElement, downPos,
                   downView, downScale, prevMouse, upSince, focusCancelled>>

clear ==
    /\ nSteps < MaxSteps
    /\ nSteps' = nSteps + 1
    /\ IF Initialized
       THEN /\ content' = zeroVector
            /\ hasElement' = FALSE
            /\ lastOp' = Op("clear", "")
       ELSE /\ lastOp' = Op("clear", NotInitializedError)
            /\ UNCHANGED <<content, hasElement>>
    /\ UNCHANGED <<svgDocument, svgRoot, viewVars, contentOffset, handlers, rootTransform,
                   blockerClass, activeElement, histVars>>

(***************************************************************************)
(* The environment: the user moves the keyboard focus into or out of an    *)
(* INPUT element.                                                          *)
(***************************************************************************)
SetActiveElement(tag) ==
    /\ tag # activeElement
    /\ activeElement' = tag
    /\ UNCHANGED <<svgDocument, svgRoot, viewVars, contentOffset, handlers, rootTransform,
                   blockerClass, content, hasElement, lastOp, nSteps, histVars>>

Next ==
    \/ \E a \in BOOLEAN, s \in BOOLEAN : initialize(a, s)
    \/ \E p \in Pointers : onmousedown(p)
    \/ onmouseup
    \/ \E p \in Pointers : onmousemove(p)
    \/ \E p \in Pointers, dy \in WheelDeltas : onwheel(p, dy)
    \/ createElement
    \/ \E size \in RectSizes : addRect(size)
    \/ \E o \in ContentOffsets : setContentOffset(o)
    \/ \E d \in DisplaySizes : focusContent(d)
    \/ clear
    \/ \E tag \in {"BODY", "INPUT"} : SetActiveElement(tag)

Spec == Init /\ [][Next]_vars

(***************************************************************************)
(* Properties.                                                             *)
(***************************************************************************)
\* a <= b (false when either is NaN)
Le(a, b) == ~IsNaN(a) /\ ~IsNaN(b) /\ ~Lt(b, a)

ScaleInRange(s) == Le(minScale, s) /\ Le(s, maxScale)

\* The content point under pointer p for a view offset and scale: (p - offset) / s
ContentPoint(p, offset, s) == Vec(Div(Sub(p.x, offset.x), s), Div(Sub(p.y, offset.y), s))

\* Midpoint of the scaled content box: offset + s * cOffset + (s * size) / 2
ContentMid(offset, s, cOffset, size) ==
    VecAdd(VecAdd(offset, VecMultiply(cOffset, s)), VecHalf(VecMultiply(size, s)))

\* The scaled content is no larger than the display less the margin, in both axes
Fits(display, size, s) ==
    /\ Le(Mul(size.x, s), Sub(display.x, displayMargin.x))
    /\ Le(Mul(size.y, s), Sub(display.y, displayMargin.y))

\* C1: once the display is initialized, scale is a number with
\* minScale <= scale <= maxScale in every reachable state.
C1_ScaleInRange == Initialized => ScaleInRange(scale)

\* C2: each initialization guard makes initialize() throw and leave the module state
\* as it was: a call on an initialized display throws "Already initialized" and keeps
\* the document, the root group, the view and the drag state; a missing anchor or an
\* unsupported SVG mode throws, leaves svgDocument and svgRoot unset and installs no
\* handler; and while the display is not initialized no step changes viewOffset,
\* scale or dragging.
C2_InitGuards ==
    [][ /\ \A a \in BOOLEAN, s \in BOOLEAN :
              initialize(a, s) =>
                  /\ (svgDocument # "undefined" \/ svgRoot # "undefined") =>
                        /\ lastOp'.threw = "Already initialized"
                        /\ UNCHANGED <<svgDocument, svgRoot, viewVars, handlers,
                                       contentOffset, rootTransform>>
                  /\ (svgDocument = "undefined" /\ svgRoot = "undefined" /\ ~(a /\ s)) =>
                        /\ lastOp'.threw # ""
                        /\ lastOp'.threw # "Already initialized"
                        /\ svgDocument' = "undefined"
                        /\ svgRoot' = "undefined"
                        /\ ~handlers'
                        /\ UNCHANGED viewVars
        /\ (svgDocument = "undefined" /\ svgRoot = "undefined") =>
              /\ ~handlers
              /\ UNCHANGED <<viewOffset, scale, dragging>>
      ]_vars

\* C2 witness: initialize() threw "Already initialized" on a display whose view had
\* been zoomed and was being dragged, and that state is still there.
C2_Witness ==
    /\ lastOp = Op("initialize", "Already initialized")
    /\ Initialized
    /\ dragging
    /\ scale # Num(1)

\* C3: while the display is not initialized, createElement, focusContent and clear
\* throw "Display hasn't been initialized" and change neither viewOffset, scale,
\* contentOffset nor the drag state; once it is initialized it stays so and none of
\* them throws that error.
C3_NeedsInitialize ==
    [][ /\ (createElement \/ clear \/ \E d \in DisplaySizes : focusContent(d)) =>
              IF Initialized
              THEN lastOp'.threw # NotInitializedError
              ELSE /\ lastOp'.threw = NotInitializedError
                   /\ UNCHANGED <<viewOffset, scale, contentOffset, dragging, dragOffset>>
        /\ Initialized => Initialized'
      ]_vars

\* C3 witness: focusContent threw on a display that was never initialized, after
\* setContentOffset had been called, and the view is still the initial one.
C3_Witness ==
    /\ lastOp = Op("focusContent", NotInitializedError)
    /\ contentOffset # zeroVector
    /\ scale = Num(1)
    /\ viewOffset = zeroVector

\* C4: a wheel event handled while no INPUT is focused, on a scale within
\* [minScale, maxScale], keeps the content point under the pointer:
\* (p - viewOffset') / scale' is the same value as (p - viewOffset) / scale.
C4_ZoomToPointer ==
    [][ \A p \in Pointers, dy \in WheelDeltas :
            (onwheel(p, dy) /\ handlers /\ activeElement # "INPUT" /\ ScaleInRange(scale))
                => ContentPoint(p, viewOffset', scale') = ContentPoint(p, viewOffset, scale)
      ]_vars

\* C4 witness: a wheel event has zoomed out to a scale strictly inside the range and
\* has moved the view offset.
C4_Witness ==
    /\ lastOp.op = "wheel"
    /\ Lt(minScale, scale)
    /\ Lt(scale, Num(1))
    /\ IsFinite(viewOffset.x)
    /\ viewOffset # zeroVector
    /\ rootTransform = TransformOf(viewOffset, scale)

\* C5 as stated: after every focusContent() the scaled content size is no larger
\* than the display size less the margin in both axes, for every display size and
\* every content size.
C5_AlwaysFits ==
    [][ \A d \in DisplaySizes :
            (focusContent(d) /\ Initialized) => Fits(d, content, scale') ]_vars

\* C5 amended: when the fit ratio min((display.x - 75) / content.x,
\* (display.y - 75) / content.y) is at least minScale, then after focusContent() the
\* scaled content size is no larger than the display size less the margin in both axes.
C5_FitsUnlessClampedUp ==
    [][ \A d \in DisplaySizes :
            (focusContent(d) /\ Initialized /\ Le(minScale, FitRatio(d, content)))
                => Fits(d, content, scale') ]_vars

\* C5 witness: focusContent has scaled a 400 x 100 content by 2 to fill the display.
C5_Witness ==
    /\ lastOp = Op("focusContent", "")
    /\ content = Pt(400, 100)
    /\ scale = Num(2)

\* C6: after every focusContent() the midpoint of the scaled content box is the
\* midpoint of the display: viewOffset + scale * contentOffset + (scale * size) / 2
\* = display / 2.
C6_Centered ==
    [][ \A d \in DisplaySizes :
            (focusContent(d) /\ Initialized)
                => ContentMid(viewOffset', scale', contentOffset, content) = VecHalf(d)
      ]_vars

\* C7: a mousemove at p that follows a handled mousedown at downPos (view offset
\* downView then) with no mouseup, wheel zoom or focusContent in between and no INPUT
\* focused leaves viewOffset = downView + (p - downPos) and the scale as it was; a
\* mousemove never changes the scale, and after a mouseup mousemoves leave viewOffset
\* unchanged until the next handled mousedown.
C7_DragPanning ==
    [][ \A p \in Pointers :
            onmousemove(p) =>
                /\ scale' = scale
                /\ (handlers /\ activeElement # "INPUT" /\ dragging /\ dragClean) =>
                      /\ viewOffset' = VecAdd(downView, VecSubtract(p, downPos))
                      /\ scale' = downScale
                /\ upSince => viewOffset' = viewOffset
      ]_vars

\* C7 witness: a drag has moved the view away from where the mousedown found it.
C7_Witness ==
    /\ lastOp.op = "mousemove"
    /\ dragging
    /\ dragClean
    /\ prevMouse # downPos
    /\ viewOffset # downView
    /\ viewOffset = VecAdd(downView, VecSubtract(prevMouse, downPos))

\* C8: while the active element is an INPUT, a mousedown and a wheel event leave
\* viewOffset, scale, dragOffset and dragging unchanged and a mousemove leaves
\* viewOffset and scale unchanged and sets dragging to false; after such a mousemove
\* no mousemove changes viewOffset until a mousedown is handled without INPUT focus.
C8_InputFocusGuard ==
    [][ /\ activeElement = "INPUT" =>
              /\ \A p \in Pointers : onmousedown(p) => UNCHANGED viewVars
              /\ \A p \in Pointers, dy \in WheelDeltas : onwheel(p, dy) => UNCHANGED viewVars
              /\ \A p \in Pointers :
                     onmousemove(p) => (UNCHANGED <<viewOffset, scale>> /\ ~dragging')
        /\ focusCancelled =>
              /\ ~dragging
              /\ \A p \in Pointers : onmousemove(p) => UNCHANGED viewOffset
      ]_vars

\* C8 witness: a drag had moved the view, a mousemove under INPUT focus ended it, and
\* a mousemove after the focus left the INPUT has not resumed it.
C8_Witness ==
    /\ focusCancelled
    /\ ~dragging
    /\ activeElement = "BODY"
    /\ lastOp.op = "mousemove"
    /\ viewOffset # zeroVector
    /\ nSteps >= 5

\* C9: a mousemove handled while dragging changes viewOffset by exactly the pointer
\* displacement since the previous mouse event of the drag, also when a wheel zoom or
\* focusContent happened in between.
C9_RelativeDrag ==
    [][ \A p \in Pointers :
            (onmousemove(p) /\ handlers /\ activeElement # "INPUT" /\ dragging)
                => viewOffset' = VecAdd(viewOffset, VecSubtract(p, prevMouse))
      ]_vars

====
